---- MODULE Spec2Model ----
(***************************************************************************)
(* ckl: a personal checklist tool (src/ckl.py).                            *)
(*                                                                         *)
(* The module models the Item/Checklist tree, the merge engine, the        *)
(* indentation parser with its duplicate map, the session serialisation    *)
(* and the interactive layer (undo stack, display filter, cursor, session  *)
(* file) of ChecklistControl.                                              *)
(*                                                                         *)
(* Text is modelled as a sequence of tokens: " " (one space), "\n", "#",   *)
(* "from:" (the five characters of the include keyword) and letters.  A    *)
(* Python object is a record with an `id` field standing for its identity. *)
(* A raised Python exception is an `err` field holding the exception name. *)
(***************************************************************************)
EXTENDS Naturals, Integers, Sequences, FiniteSets, TLC

VARIABLES
    lists,            \* the lists directory: file base name -> lines
    sessions,         \* the sessions directory: path -> JSON document
    pc,               \* "off" (not running), "on" (app.run), "crashed"
    checklist,        \* session.checklist, the tree ChecklistControl shows
    duplicates,       \* session.duplicates
    dup_warning,      \* the DuplicatesWarningDialog float is on screen
    dialog,           \* the modal dialog open: "none", "completed", "reset"
    undo_stack,       \* ChecklistControl.undo_stack
    show_completed,   \* ChecklistControl.show_completed
    cursor_y,         \* ChecklistControl.cursor_position.y
    run,              \* how many times the program has been started
    parses,           \* how many times ChecklistSession.load ran the parser
    mutated,          \* the current run has toggled, undone or reset
    history,          \* the trees before each toggle not yet undone
    undone,           \* <<[item, before]>> right after an undo, else <<>>
    last_op,          \* what the last handler did: "toggle", "undo",
                      \* "noundo" (z on an empty stack), "reset", else "none"
    fpc,              \* the step of a function under check
    fin,              \* its inputs
    fout              \* its result

vars == <<lists, sessions, pc, checklist, duplicates, dup_warning, dialog,
          undo_stack, show_completed, cursor_y, run, parses, mutated,
          history, undone, last_op, fpc, fin, fout>>

ui_vars == <<lists, sessions, pc, checklist, duplicates, dup_warning, dialog,
             undo_stack, show_completed, cursor_y, run, parses, mutated,
             history, undone, last_op>>

fn_vars == <<fpc, fin, fout>>

\* ---------------------------------------------------------------- bounds

MaxLines == 3

MaxIndent == 2

MaxUndo == 2

MaxRuns == 2
MaxNodes == 3
MaxMergeNodes == 3
MaxParentLines == 1
MaxInheritLines == 3
MaxNumberLines == 4

Names == {"a", "b"}

\* ------------------------------------------------------------------ text

Whitespace == {" ", "\n"}

SetMin(S) == CHOOSE x \in S : \A y \in S : x <= y

SetMax(S) == CHOOSE x \in S : \A y \in S : x >= y

\* str.strip(): leading and trailing whitespace removed.
Strip(s) ==
    LET keep == {i \in 1..Len(s) : s[i] \notin Whitespace}
    IN  IF keep = {} THEN <<>> ELSE SubSeq(s, SetMin(keep), SetMax(keep))

\* str.startswith(tok)
StartsWith(line, tok) == Len(line) > 0 /\ line[1] = tok

\* len(line) - len(line.lstrip(' ')): the number of leading spaces.
LeadingSpaces(line) ==
    LET other == {i \in 1..Len(line) : line[i] # " "}
    IN  IF other = {} THEN Len(line) ELSE SetMin(other) - 1

\* line.split('from:')[1].strip(), for a line that starts with 'from:'.
ParentName(line) ==
    LET more == {i \in 2..Len(line) : line[i] = "from:"}
        last == IF more = {} THEN Len(line) ELSE SetMin(more) - 1
    IN  Strip(SubSeq(line, 2, last))

\* ------------------------------------------------------------------ tree

\* Item.__init__: the name is stripped.
Item(name, checked, id) ==
    [kind |-> "Item", id |-> id, name |-> Strip(name), checked |-> checked,
     items |-> <<>>]

\* Checklist.__init__
Checklist(name, items, checked, id) ==
    [kind |-> "Checklist", id |-> id, name |-> Strip(name), checked |-> checked,
     items |-> items]

\* hasattr(item, 'items'): only a Checklist has the method.
HasItems(item) == item.kind = "Checklist"

\* Item.check / Checklist.check: a Checklist propagates to every child.
RECURSIVE check(_, _)
\* A check that stops at the children: the flag of the node and of its
\* direct children, nothing below them.
check_children_only(item, checked) ==
    [item EXCEPT !.checked = checked,
                 !.items = [i \in DOMAIN item.items |->
                               [item.items[i] EXCEPT !.checked = checked]]]
check(item, checked) ==
    IF HasItems(item)
    THEN [item EXCEPT !.checked = checked,
                      !.items = [i \in DOMAIN item.items |->
                                    check(item.items[i], checked)]]
    ELSE [item EXCEPT !.checked = checked]

\* Item.unchecked
unchecked(item) == ~item.checked

\* Checklist.items(): the pre-order list of all descendants.
RECURSIVE Checklist_items(_), FlattenFrom(_, _, _)
FlattenFrom(its, k, acc) ==
    IF k > Len(its) THEN acc
    ELSE LET item == its[k]
             sub  == IF HasItems(item) THEN Checklist_items(item) ELSE <<>>
         IN  FlattenFrom(its, k + 1, acc \o <<item>> \o sub)
Checklist_items(ckl) == FlattenFrom(ckl.items, 1, <<>>)

\* What two trees are compared on: kind, name, checked flag and ordered
\* children at every node (object identity left out).
RECURSIVE Content(_)
Content(node) ==
    [kind |-> node.kind, name |-> node.name, checked |-> node.checked,
     items |-> [i \in DOMAIN node.items |-> Content(node.items[i])]]

\* The first direct child with the given name: next((i for i in self._items
\* if i.name == name), None), as an index (0 for None).
FirstNamed(its, name) ==
    LET same == {i \in DOMAIN its : its[i].name = name}
    IN  IF same = {} THEN 0 ELSE SetMin(same)

\* Checklist.merge.  The result is [node, err]: err = "AttributeError" when
\* merge is called on an Item, which has no such method.  MergeStep is the
\* body of the loop for one other_item, on r = [node, err]; Merged puts the
\* result m of our_item.merge(other_item) back at child i.
RECURSIVE Checklist_merge(_, _), MergeFrom(_, _, _)
Merged(r, i, m) == [node |-> [r.node EXCEPT !.items[i] = m.node], err |-> m.err]
\* A merge that appends every child of the argument, found or not.
MergeStep_append(r, other_item) ==
    [node |-> [r.node EXCEPT !.items = Append(@, other_item)], err |-> ""]
MergeStep(r, other_item) ==
    LET i == FirstNamed(r.node.items, other_item.name)
    IN  IF i = 0
        THEN [node |-> [r.node EXCEPT !.items = Append(@, other_item)], err |-> ""]
        ELSE IF ~HasItems(other_item) THEN r
        ELSE IF ~HasItems(r.node.items[i])
        THEN [node |-> r.node, err |-> "AttributeError"]
        ELSE Merged(r, i, Checklist_merge(r.node.items[i], other_item))
MergeFrom(r, others, k) ==
    IF k > Len(others) \/ r.err # "" THEN r
    ELSE MergeFrom(MergeStep(r, others[k]), others, k + 1)
Checklist_merge(self, other) ==
    MergeFrom([node |-> self, err |-> ""], other.items, 1)

\* ---------------------------------------------------------------- parser

LISTS_ROOT == "lists"

SESSIONS_ROOT == "sessions"

\* os.path.join(LISTS_ROOT, parent_name) + '.ckl'
PathToParent(parent_name) == [root |-> LISTS_ROOT, base |-> parent_name]

\* os.path.basename(self.path).replace('.ckl', '')
BaseName(path) == path.base

\* The duplicate map `items`: a Python dict, kept as the sequence of its
\* [name, recs] entries in insertion order.
DictIndex(d, name) ==
    LET same == {i \in DOMAIN d : d[i].name = name}
    IN  IF same = {} THEN 0 ELSE SetMin(same)

\* self.items.setdefault(name, []).append(rec)
DictAppend(d, name, rec) ==
    LET i == DictIndex(d, name)
    IN  IF i = 0 THEN Append(d, [name |-> name, recs |-> <<rec>>])
        ELSE [d EXCEPT ![i].recs = Append(@, rec)]

\* [ i for i in recs if i[0] != item ]
WithoutItem(recs, id) == SelectSeq(recs, LAMBDA r : r.item # id)

\* ChecklistParser.add_item, on the parser's checklist and the shared state
\* sh = [lines, items, nextId, err]; the Item is a new object.  A record
\* (item, path, linenum) holds the Item: its identity and its name.
add_item(ckl, sh, path, line, linenum) ==
    LET item == Item(line, FALSE, sh.nextId)
    IN  [checklist |-> [ckl EXCEPT !.items = Append(@, item)],
         sh |-> [sh EXCEPT !.nextId = @ + 1,
                           !.items = DictAppend(@, item.name,
                                        [item |-> item.id, name |-> item.name,
                                         path |-> path, linenum |-> linenum])]]

\* A pop_item that leaves the duplicate map as it is.
pop_item_keep_record(ckl, sh) ==
    IF ckl.items = <<>>
    THEN [checklist |-> ckl, item |-> ckl, sh |-> [sh EXCEPT !.err = "IndexError"]]
    ELSE [checklist |-> [ckl EXCEPT !.items = SubSeq(@, 1, Len(@) - 1)],
          item |-> ckl.items[Len(ckl.items)], sh |-> sh]

\* ChecklistParser.pop_item: list.pop() raises IndexError on an empty list,
\* self.items[item.name] raises KeyError on a name never registered.
pop_item(ckl, sh) ==
    IF ckl.items = <<>>
    THEN [checklist |-> ckl, item |-> ckl, sh |-> [sh EXCEPT !.err = "IndexError"]]
    ELSE LET item == ckl.items[Len(ckl.items)]
             rest == [ckl EXCEPT !.items = SubSeq(@, 1, Len(@) - 1)]
             i    == DictIndex(sh.items, item.name)
         IN  IF i = 0
             THEN [checklist |-> rest, item |-> item,
                   sh |-> [sh EXCEPT !.err = "KeyError"]]
             ELSE [checklist |-> rest, item |-> item,
                   sh |-> [sh EXCEPT !.items[i].recs = WithoutItem(@, item.id)]]

\* ChecklistParser.dups: the records of every name with more than one.
RECURSIVE DupsFrom(_, _)
DupsFrom(d, k) ==
    IF k > Len(d) THEN <<>>
    ELSE (IF Len(d[k].recs) > 1 THEN d[k].recs ELSE <<>>) \o DupsFrom(d, k + 1)
dups(d) == DupsFrom(d, 1)

\* parents[0].merge(p) for p in parents[1:]
RECURSIVE MergeAll(_, _, _)
MergeAll(r, parents, k) ==
    IF k > Len(parents) \/ r.err # "" THEN r
    ELSE MergeAll(Checklist_merge(r.node, parents[k]), parents, k + 1)

\* ChecklistParser.__init__ + load + loads.  fs is the lists directory (file
\* base name -> lines); `name` is <<>> for None; sh.lines is the list the
\* caller passes, which a sub-list parser shares with its caller.  The
\* result is [checklist, sh].  L is the state of the while loop:
\* [checklist, parents, linenum, sh, brk].
RECURSIVE ChecklistParser_loads(_, _, _, _, _, _), LoadsLoop(_, _, _, _), ChecklistParser_load(_, _, _)

\* load(): the parser reads its own file; the caller's lines are untouched.
Loaded(r, sh) == [checklist |-> r.checklist, sh |-> [r.sh EXCEPT !.lines = sh.lines]]
ChecklistParser_load(fs, path, sh) ==
    IF path.base \notin DOMAIN fs
    THEN [checklist |-> Checklist(BaseName(path), <<>>, FALSE, sh.nextId),
          sh |-> [sh EXCEPT !.err = "FileNotFoundError"]]
    ELSE Loaded(ChecklistParser_loads(fs, path, <<>>,
                    [sh EXCEPT !.lines = fs[path.base]], 0, 0), sh)

\* The from: branch, p the parent parser's result:
\* parents.append(<parent>.load().merge(self.checklist))
ParentMerged(L, linenum, sh, m) ==
    [L EXCEPT !.sh = [sh EXCEPT !.err = m.err], !.linenum = linenum,
              !.parents = Append(@, m.node)]
\* A from: branch that reads the parent and leaves it out of `parents`.
FromBranch_skip(L, linenum, p) == [L EXCEPT !.sh = p.sh, !.linenum = linenum]
FromBranch(L, linenum, p) ==
    IF p.sh.err # ""
    THEN [L EXCEPT !.sh = p.sh, !.linenum = linenum]
    ELSE ParentMerged(L, linenum, p.sh, Checklist_merge(p.checklist, L.checklist))

\* The branch new_indent == indent, a the result of add_item.
ItemBranch(L, linenum, a) ==
    [L EXCEPT !.checklist = a.checklist, !.sh = a.sh, !.linenum = linenum]

\* A return from the sub-list that leaves the line counter where it was.
SublistDone_same_line(L, linenum, rest, sub) ==
    [L EXCEPT !.checklist = [rest EXCEPT !.items = Append(@, sub.checklist)],
              !.sh = sub.sh,
              !.linenum = linenum]

\* The branch new_indent > indent: the line is pushed back, the last item
\* is popped (po) and replaced by the Checklist a sub-parser returns (sub).
SublistDone(L, linenum, rest, sub) ==
    [L EXCEPT !.checklist = [rest EXCEPT !.items = Append(@, sub.checklist)],
              !.sh = sub.sh,
              !.linenum = linenum + Len(L.sh.lines) - Len(sub.sh.lines) - 1]
SublistBranch(fs, path, L, linenum, new_indent, po) ==
    IF po.sh.err # ""
    THEN [L EXCEPT !.sh = po.sh, !.linenum = linenum]
    ELSE SublistDone(L, linenum, po.checklist,
             ChecklistParser_loads(fs, path, po.item.name, po.sh,
                                   new_indent, linenum - 1))

\* One pass of the body of the while loop.
LoadsStep(fs, path, indent, L) ==
    LET line    == Head(L.sh.lines)
        sh1     == [L.sh EXCEPT !.lines = Tail(@)]
        linenum == L.linenum + 1
    IN  IF StartsWith(line, "#")
        THEN [L EXCEPT !.sh = sh1, !.linenum = linenum]
        ELSE IF StartsWith(line, "from:")
        THEN FromBranch(L, linenum,
                 ChecklistParser_load(fs, PathToParent(ParentName(line)), sh1))
        ELSE IF LeadingSpaces(line) = indent
        THEN ItemBranch(L, linenum, add_item(L.checklist, sh1, path, line, linenum))
        ELSE IF LeadingSpaces(line) > indent
        THEN SublistBranch(fs, path, L, linenum, LeadingSpaces(line),
                           pop_item(L.checklist, L.sh))
        ELSE [L EXCEPT !.brk = TRUE, !.linenum = linenum]
LoadsLoop(fs, path, indent, L) ==
    IF L.sh.lines = <<>> \/ L.brk \/ L.sh.err # "" THEN L
    ELSE LoadsLoop(fs, path, indent, LoadsStep(fs, path, indent, L))

\* After the loop: with parents, all are merged into the first, own items
\* last, and the result takes this parser's name.
ParentsMerged(self_name, L, m) ==
    [checklist |-> [m.node EXCEPT !.name = self_name],
     sh |-> [L.sh EXCEPT !.err = m.err]]
LoadsReturn(self_name, L) ==
    IF L.sh.err # "" \/ L.parents = <<>>
    THEN [checklist |-> L.checklist, sh |-> L.sh]
    ELSE ParentsMerged(self_name, L,
             MergeAll([node |-> L.parents[1], err |-> ""],
                      Append(L.parents, L.checklist), 2))
SelfName(path, name) == IF name = <<>> THEN BaseName(path) ELSE name
ChecklistParser_loads(fs, path, name, sh, indent, linenum_) ==
    LoadsReturn(SelfName(path, name),
        LoadsLoop(fs, path, indent,
            [checklist |-> Checklist(SelfName(path, name), <<>>, FALSE, sh.nextId),
             parents |-> <<>>, linenum |-> linenum_,
             sh |-> [sh EXCEPT !.nextId = @ + 1], brk |-> FALSE]))

\* A fresh parse, as ChecklistSession.load runs it: a new parser over an
\* empty duplicate map.
NewShared == [lines |-> <<>>, items |-> <<>>, nextId |-> 1, err |-> ""]

\* --------------------------------------------------------------- session

\* The session path: path_to_checklist.replace(LISTS_ROOT, SESSIONS_ROOT).
PathToSession(path) ==
    [path EXCEPT !.root = IF @ = LISTS_ROOT THEN SESSIONS_ROOT ELSE @]

\* ChecklistSession.dumps.  The JSON document is kept as the value json.dumps
\* writes and json.loads reads back: an object is a record, a composite's
\* record has the key "items" and a leaf's record has not.
RECURSIVE to_dict(_)
to_dict(ckl) ==
    [k \in DOMAIN ckl.items |->
        IF HasItems(ckl.items[k])
        THEN [name |-> ckl.items[k].name, checked |-> ckl.items[k].checked,
              items |-> to_dict(ckl.items[k])]
        ELSE [name |-> ckl.items[k].name, checked |-> ckl.items[k].checked]]

ChecklistSession_dumps(ckl) ==
    [name |-> ckl.name, items |-> to_dict(ckl),
     checked |-> ckl.checked]

\* The number of objects from_dict builds for a document.
RECURSIVE DocSize(_), DocsSize(_, _)
DocsSize(ds, k) == IF k > Len(ds) THEN 0 ELSE DocSize(ds[k]) + DocsSize(ds, k + 1)
DocSize(d) == IF "items" \in DOMAIN d THEN 1 + DocsSize(d.items, 1) ELSE 1

\* ChecklistSession.loads: from_dict, every node a new object (ids from `id`).
RECURSIVE from_dict(_, _), FromDicts(_, _, _)
FromDicts(ds, k, id) ==
    IF k > Len(ds) THEN <<>>
    ELSE <<from_dict(ds[k], id)>> \o FromDicts(ds, k + 1, id + DocSize(ds[k]))
\* A from_dict that takes a document with no children for an Item.
from_dict_by_children(d, id) ==
    IF "items" \in DOMAIN d /\ d.items # <<>>
    THEN Checklist(d.name, FromDicts(d.items, 1, id + 1), d.checked, id)
    ELSE Item(d.name, d.checked, id)
from_dict(d, id) ==
    IF "items" \in DOMAIN d
    THEN Checklist(d.name, FromDicts(d.items, 1, id + 1), d.checked, id)
    ELSE Item(d.name, d.checked, id)

ChecklistSession_loads(str) == from_dict(str, 1)

\* ------------------------------------------------------ ChecklistControl

\* The node of the tree that is the object `id`.
RECURSIVE FindIn(_, _, _)
FindIn(its, k, id) ==
    IF k > Len(its) THEN <<>>
    ELSE IF its[k].id = id THEN <<its[k]>>
    ELSE LET sub == FindIn(its[k].items, 1, id)
         IN  IF sub # <<>> THEN sub ELSE FindIn(its, k + 1, id)
ItemById(ckl, id) == FindIn(ckl.items, 1, id)[1]

\* item.check(checked) on the object `id` of the tree.
RECURSIVE CheckAt(_, _, _)
CheckAt(node, id, checked) ==
    IF node.id = id THEN check(node, checked)
    ELSE [node EXCEPT !.items = [i \in DOMAIN node.items |->
                                    CheckAt(node.items[i], id, checked)]]

\* [i.checked for i in item.items()]
CheckedFlags(its) == [i \in DOMAIN its |-> its[i].checked]

\* An undo_push that records the flag the toggle is about to set.
undo_push_after(stack, item) ==
    (IF HasItems(item)
     THEN stack \o <<[item |-> item.id,
                      checked |-> CheckedFlags(Checklist_items(item))]>>
     ELSE stack) \o <<[item |-> item.id, checked |-> ~item.checked]>>

\* An undo_push that puts the frames under the stack, not on top of it.
undo_push_under(stack, item) ==
    (IF HasItems(item)
     THEN <<[item |-> item.id,
             checked |-> CheckedFlags(Checklist_items(item))]>>
     ELSE <<>>) \o <<[item |-> item.id, checked |-> item.checked]>> \o stack

\* ChecklistControl.undo_push
undo_push(stack, item) ==
    LET snap == IF HasItems(item)
                THEN <<[item |-> item.id,
                        checked |-> CheckedFlags(Checklist_items(item))]>>
                ELSE <<>>
    IN  stack \o snap \o <<[item |-> item.id, checked |-> item.checked]>>

\* for i, checked in zip(item.items(), checked): i.check(checked=checked)
RECURSIVE ZipCheck(_, _, _, _)
ZipCheck(ckl, ids, flags, k) ==
    IF k > Len(ids) \/ k > Len(flags) THEN ckl
    ELSE ZipCheck(CheckAt(ckl, ids[k], flags[k]), ids, flags, k + 1)

\* ChecklistControl.undo_pop, on a non-empty stack: [checklist, undo_stack,
\* item].  c1 is the tree after item.check(checked) of the top frame; for a
\* Checklist the next frame is popped and its flags go back one by one.
ButLast(stack) == SubSeq(stack, 1, Len(stack) - 1)
Restored(c1, sub, snap, rest) ==
    [checklist |-> ZipCheck(c1, [i \in DOMAIN sub |-> sub[i].id], snap.checked, 1),
     undo_stack |-> rest, item |-> snap.item]
PopSecond(c1, snap, rest) ==
    Restored(c1, Checklist_items(ItemById(c1, snap.item)), snap, rest)
PopFirst(c1, top, rest) ==
    IF HasItems(ItemById(c1, top.item))
    THEN PopSecond(c1, rest[Len(rest)], ButLast(rest))
    ELSE [checklist |-> c1, undo_stack |-> rest, item |-> top.item]
\* An undo_pop that drops the snapshot of a Checklist without using it.
undo_pop_own_flag(ckl, stack) ==
    [checklist |-> CheckAt(ckl, stack[Len(stack)].item, stack[Len(stack)].checked),
     undo_stack |-> IF HasItems(ItemById(ckl, stack[Len(stack)].item))
                    THEN ButLast(ButLast(stack)) ELSE ButLast(stack),
     item |-> stack[Len(stack)].item]
undo_pop(ckl, stack) ==
    PopFirst(CheckAt(ckl, stack[Len(stack)].item, stack[Len(stack)].checked),
             stack[Len(stack)], ButLast(stack))

\* ChecklistControl.displayed_items
displayed_items(ckl, show) ==
    IF show THEN Checklist_items(ckl)
    ELSE SelectSeq(Checklist_items(ckl), unchecked)

\* An adjust_cursor_position without the two tests on the length of the
\* list.
adjust_cursor_position_unclamped(cur, d_items, y_arg) ==
    IF y_arg # <<>> /\ y_arg[1] < Len(d_items) THEN y_arg[1] ELSE cur

\* ChecklistControl.adjust_cursor_position: the new cursor_position.y; the
\* argument y is <<>> for None and <<y>> for a number.
adjust_cursor_position(cur, d_items, y_arg) ==
    LET c1 == IF y_arg # <<>> /\ y_arg[1] < Len(d_items) THEN y_arg[1] ELSE cur
    IN  IF Len(d_items) = 0 THEN 0
        ELSE IF c1 >= Len(d_items) THEN Len(d_items) - 1
        ELSE c1

\* displayed_items().index(item): <<index>>, or <<>> for ValueError.
IndexOf(d_items, id) ==
    LET at == {i \in DOMAIN d_items : d_items[i].id = id}
    IN  IF at = {} THEN <<>> ELSE <<SetMin(at) - 1>>

\* A completion test on the flag of the top-level checklist.
AllChecked_top_flag(ckl) == ckl.checked

\* len([i for i in self.checklist.items() if i.unchecked]) == 0
AllChecked(ckl) == SelectSeq(Checklist_items(ckl), unchecked) = <<>>

\* An uncheck of the direct children alone, flag by flag.
UncheckAll_top_level(ckl) ==
    [ckl EXCEPT !.items = [i \in DOMAIN ckl.items |->
                              [ckl.items[i] EXCEPT !.checked = FALSE]]]

\* [ i.uncheck() for i in checklist_control.checklist.items() ]
UncheckAll(ckl) ==
    LET its == Checklist_items(ckl)
    IN  ZipCheck(ckl, [i \in DOMAIN its |-> its[i].id],
                 [i \in DOMAIN its |-> FALSE], 1)

\* A load that parses whether or not the session file exists.
ChecklistSession_load_parse(sess, fs, path) ==
    [checklist |-> ChecklistParser_load(fs, path, NewShared).checklist,
     duplicates |-> <<dups(ChecklistParser_load(fs, path, NewShared).sh.items)>>,
     parsed |-> TRUE, err |-> ChecklistParser_load(fs, path, NewShared).sh.err]

\* ChecklistSession.load: the session file if it exists, else a fresh parse.
\* sess is the sessions directory (path -> document), fs the lists
\* directory.  duplicates is <<>> for None and <<list>> for a list.
Parsed(r) ==
    [checklist |-> r.checklist, duplicates |-> <<dups(r.sh.items)>>,
     parsed |-> TRUE, err |-> r.sh.err]
ChecklistSession_load(sess, fs, path) ==
    IF PathToSession(path) \in DOMAIN sess
    THEN [checklist |-> ChecklistSession_loads(sess[PathToSession(path)]),
          duplicates |-> <<>>, parsed |-> FALSE, err |-> ""]
    ELSE Parsed(ChecklistParser_load(fs, path, NewShared))

\* A dump that writes to the path of the checklist, not of the session.
ChecklistSession_dump_list_path(sess, path, ckl) ==
    [p \in DOMAIN sess \cup {path} |->
        IF p = path THEN ChecklistSession_dumps(ckl) ELSE sess[p]]

\* ChecklistSession.dump
ChecklistSession_dump(sess, path, ckl) ==
    [p \in DOMAIN sess \cup {PathToSession(path)} |->
        IF p = PathToSession(path) THEN ChecklistSession_dumps(ckl)
        ELSE sess[p]]

\* `if session.duplicates:` None and the empty list are falsy.
Truthy(dup) == dup # <<>> /\ dup[1] # <<>>

\* DuplicatesWarningDialog.__init__ takes the records two at a time:
\* next(it) raises StopIteration on an odd number of them.
DuplicatesDialogRaises(dup) == Len(dup[1]) % 2 = 1

\* ------------------------------------------------- the interactive program

\* An item line: `indent` spaces, the name, the line end.
ItemLine(indent, name) == [i \in 1..indent |-> " "] \o <<name, "\n">>

ItemLines == {ItemLine(n, x) : n \in 0..MaxIndent, x \in Names}

\* Files of at most n lines drawn from the set S.
FilesOf(S, n) == UNION {[1..k -> S] : k \in 0..n}

\* args.path_to_checklist
PathMain == [root |-> LISTS_ROOT, base |-> <<"A">>]

NoFiles == [p \in {} |-> <<>>]

NoChecklist == Checklist(<<>>, <<>>, FALSE, 0)

FnIdle == fpc = "idle" /\ fin = <<>> /\ fout = <<>>

Init ==
    /\ \E f \in FilesOf(ItemLines, MaxLines) : lists = (<<"A">> :> f)
    /\ sessions = NoFiles
    /\ pc = "off"
    /\ checklist = NoChecklist
    /\ duplicates = <<>>
    /\ dup_warning = FALSE
    /\ dialog = "none"
    /\ undo_stack = <<>>
    /\ show_completed = FALSE
    /\ cursor_y = 0
    /\ run = 0
    /\ parses = 0
    /\ mutated = FALSE
    /\ history = <<>>
    /\ undone = <<>>
    /\ last_op = "none"
    /\ FnIdle

\* __main__: session.load(), the ChecklistControl, the duplicates dialog.
\* An exception before app.run() ends the process.
Started(s) ==
    /\ parses' = IF s.parsed THEN parses + 1 ELSE parses
    /\ checklist' = s.checklist
    /\ duplicates' = s.duplicates
    /\ IF s.err # ""
       THEN pc' = "crashed" /\ dup_warning' = FALSE
       ELSE IF Truthy(s.duplicates)
       THEN /\ pc' = IF DuplicatesDialogRaises(s.duplicates)
                     THEN "crashed" ELSE "on"
            /\ dup_warning' = ~DuplicatesDialogRaises(s.duplicates)
       ELSE pc' = "on" /\ dup_warning' = FALSE

Main ==
    /\ last_op' = "none"
    /\ pc \in {"off", "crashed"}
    /\ run < MaxRuns
    /\ run' = run + 1
    /\ Started(ChecklistSession_load(sessions, lists, PathMain))
    /\ undo_stack' = <<>>
    /\ show_completed' = FALSE
    /\ cursor_y' = 0
    /\ dialog' = "none"
    /\ mutated' = FALSE
    /\ history' = <<>>
    /\ undone' = <<>>
    /\ UNCHANGED <<lists, sessions, fn_vars>>

Focused == pc = "on" /\ dialog = "none"

\* self.adjust_cursor_position(y), on the list d_items shown after the step.
Adjusted(d_items, y) == cursor_y' = adjust_cursor_position(cursor_y, d_items, y)

\* 'c': show/hide checked items.
KeyC ==
    /\ last_op' = "none"
    /\ Focused
    /\ show_completed' = ~show_completed
    /\ Adjusted(displayed_items(checklist, ~show_completed), <<>>)
    /\ UNCHANGED <<lists, sessions, pc, checklist, duplicates, dup_warning,
                   dialog, undo_stack, run, parses, mutated, history,
                   fn_vars>>
    /\ undone' = <<>>

\* 'z': undo; u is the result of undo_pop, d_items the list shown after it.
UndoShown(u, d_items) == Adjusted(d_items, IndexOf(d_items, u.item))
\* A 'z' that pops and leaves the session file as it is.
Undone_no_dump(u) ==
    /\ checklist' = u.checklist
    /\ undo_stack' = u.undo_stack
    /\ sessions' = sessions
    /\ UndoShown(u, displayed_items(u.checklist, show_completed))
    /\ mutated' = TRUE
    /\ history' = ButLast(history)
    /\ undone' = <<[item |-> u.item, before |-> history[Len(history)]]>>
Undone(u) ==
    /\ checklist' = u.checklist
    /\ undo_stack' = u.undo_stack
    /\ sessions' = ChecklistSession_dump(sessions, PathMain, u.checklist)
    /\ UndoShown(u, displayed_items(u.checklist, show_completed))
    /\ mutated' = TRUE
    /\ history' = ButLast(history)
    /\ undone' = <<[item |-> u.item, before |-> history[Len(history)]]>>

\* A 'z' that calls session.dump() outside the test of the stack.
KeyZ_dump_always ==
    /\ last_op' = (IF Len(undo_stack) > 0 THEN "undo" ELSE "noundo")
    /\ Focused
    /\ IF Len(undo_stack) > 0
       THEN Undone(undo_pop(checklist, undo_stack))
       ELSE /\ sessions' = ChecklistSession_dump(sessions, PathMain, checklist)
            /\ UNCHANGED <<checklist, undo_stack, cursor_y, mutated, history>>
            /\ undone' = <<>>
    /\ UNCHANGED <<lists, pc, duplicates, dup_warning, dialog, show_completed,
                   run, parses, fn_vars>>

KeyZ ==
    /\ last_op' = (IF Len(undo_stack) > 0 THEN "undo" ELSE "noundo")
    /\ Focused
    /\ IF Len(undo_stack) > 0
       THEN Undone(undo_pop(checklist, undo_stack))
       ELSE /\ UNCHANGED <<checklist, undo_stack, sessions, cursor_y, mutated,
                           history>>
            /\ undone' = <<>>
    /\ UNCHANGED <<lists, pc, duplicates, dup_warning, dialog, show_completed,
                   run, parses, fn_vars>>

\* 'R': the reset confirmation dialog.
KeyR ==
    /\ last_op' = "none"
    /\ Focused
    /\ dialog' = "reset"
    /\ UNCHANGED <<lists, sessions, pc, checklist, duplicates, dup_warning,
                   undo_stack, show_completed, cursor_y, run, parses, mutated,
                   history,
                   fn_vars>>
    /\ undone' = <<>>

\* ResetConfirmationDialog: yes_handler; c1 is the tree with all unchecked.
ResetTo(c1) ==
    /\ checklist' = c1
    /\ sessions' = ChecklistSession_dump(sessions, PathMain, c1)
    /\ Adjusted(displayed_items(c1, show_completed), <<>>)

ResetYes ==
    /\ last_op' = "reset"
    /\ pc = "on" /\ dialog = "reset"
    /\ undo_stack' = <<>>
    /\ ResetTo(UncheckAll(checklist))
    /\ dialog' = "none"
    /\ mutated' = TRUE
    /\ history' = <<>>
    /\ undone' = <<>>
    /\ UNCHANGED <<lists, pc, duplicates, dup_warning, show_completed, run,
                   parses, fn_vars>>

\* ResetConfirmationDialog: no_handler; ChecklistCompletedDialog: its button.
DialogClose ==
    /\ last_op' = "none"
    /\ pc = "on" /\ dialog # "none"
    /\ dialog' = "none"
    /\ Adjusted(displayed_items(checklist, show_completed), <<>>)
    /\ UNCHANGED <<lists, sessions, pc, checklist, duplicates, dup_warning,
                   undo_stack, show_completed, run, parses, mutated, history,
                   fn_vars>>
    /\ undone' = <<>>

\* 'down' and 'up', d_items the list shown.
MoveTo(d_items, new_y, ok) ==
    cursor_y' = IF ok THEN adjust_cursor_position(cursor_y, d_items, <<new_y>>)
                ELSE cursor_y

DownOn(d_items) == MoveTo(d_items, cursor_y + 1, cursor_y + 1 < Len(d_items))

KeyDown ==
    /\ last_op' = "none"
    /\ Focused
    /\ DownOn(displayed_items(checklist, show_completed))
    /\ UNCHANGED <<lists, sessions, pc, checklist, duplicates, dup_warning,
                   dialog, undo_stack, show_completed, run, parses, mutated,
                   history,
                   fn_vars>>
    /\ undone' = <<>>

KeyUp ==
    /\ last_op' = "none"
    /\ Focused
    /\ MoveTo(displayed_items(checklist, show_completed), cursor_y - 1,
              cursor_y - 1 >= 0)
    /\ UNCHANGED <<lists, sessions, pc, checklist, duplicates, dup_warning,
                   dialog, undo_stack, show_completed, run, parses, mutated,
                   history,
                   fn_vars>>
    /\ undone' = <<>>

\* 'c-f', page down: line_index is max(last_visible_line(), vertical_scroll
\* + 1), at least 1 and set by the screen; any such line is drawn here.
KeyPageDown ==
    /\ last_op' = "none"
    /\ Focused
    /\ \E line_index \in 1..(MaxLines + 1) :
          Adjusted(displayed_items(checklist, show_completed), <<line_index>>)
    /\ UNCHANGED <<lists, sessions, pc, checklist, duplicates, dup_warning,
                   dialog, undo_stack, show_completed, run, parses, mutated,
                   history, fn_vars>>
    /\ undone' = <<>>

\* max(0, y - window_height + 1)
PageUpLine(y, window_height) ==
    IF y - window_height + 1 > 0 THEN y - window_height + 1 ELSE 0

\* 'c-b', page up: the window is window_height >= 1 lines high.
KeyPageUp ==
    /\ last_op' = "none"
    /\ Focused
    /\ \E window_height \in 1..(MaxLines + 1) :
          Adjusted(displayed_items(checklist, show_completed),
                   <<PageUpLine(cursor_y, window_height)>>)
    /\ UNCHANGED <<lists, sessions, pc, checklist, duplicates, dup_warning,
                   dialog, undo_stack, show_completed, run, parses, mutated,
                   history, fn_vars>>
    /\ undone' = <<>>

\* 'c-a': go to the beginning.
KeyHome ==
    /\ last_op' = "none"
    /\ Focused
    /\ Adjusted(displayed_items(checklist, show_completed), <<0>>)
    /\ UNCHANGED <<lists, sessions, pc, checklist, duplicates, dup_warning,
                   dialog, undo_stack, show_completed, run, parses, mutated,
                   history, fn_vars>>
    /\ undone' = <<>>

\* 'c-z': go to the end; line_index is -1 on an empty list.
EndOf(d_items) == Adjusted(d_items, <<Len(d_items) - 1>>)

KeyEnd ==
    /\ last_op' = "none"
    /\ Focused
    /\ EndOf(displayed_items(checklist, show_completed))
    /\ UNCHANGED <<lists, sessions, pc, checklist, duplicates, dup_warning,
                   dialog, undo_stack, show_completed, run, parses, mutated,
                   history, fn_vars>>
    /\ undone' = <<>>

\* item.toggle() on the object `item` of the tree.
toggle(ckl, item) == CheckAt(ckl, item.id, ~item.checked)

\* 'space': check/uncheck the item under the cursor; d_items is the list
\* shown, c1 the tree after the toggle.  d_items[y] past the end raises
\* IndexError.  The model takes at most MaxUndo toggles that are not yet
\* undone or reset.
Toggled(item, c1) ==
    /\ Len(history) < MaxUndo
    /\ undo_stack' = undo_push(undo_stack, item)
    /\ checklist' = c1
    /\ sessions' = ChecklistSession_dump(sessions, PathMain, c1)
    /\ Adjusted(displayed_items(c1, show_completed), <<>>)
    /\ dialog' = IF AllChecked(c1) THEN "completed" ELSE "none"
    /\ mutated' = TRUE
    /\ pc' = pc
    /\ history' = Append(history, checklist)
    /\ last_op' = "toggle"

SpaceOn(d_items) ==
    IF Len(d_items) = 0
    THEN /\ last_op' = "none"
         /\ UNCHANGED <<pc, checklist, undo_stack, sessions, cursor_y, dialog,
                        mutated, history>>
    ELSE IF cursor_y >= Len(d_items)
    THEN /\ pc' = "crashed"
         /\ last_op' = "none"
         /\ UNCHANGED <<checklist, undo_stack, sessions, cursor_y, dialog,
                        mutated, history>>
    ELSE Toggled(d_items[cursor_y + 1], toggle(checklist, d_items[cursor_y + 1]))

KeySpace ==
    /\ Focused
    /\ SpaceOn(displayed_items(checklist, show_completed))
    /\ undone' = <<>>
    /\ UNCHANGED <<lists, duplicates, dup_warning, show_completed, run, parses,
                   fn_vars>>

\* 'q': app.exit(); the process ends, the files stay.
KeyQ ==
    /\ last_op' = "none"
    /\ pc = "on"
    /\ pc' = "off"
    /\ UNCHANGED <<lists, sessions, checklist, duplicates, dup_warning, dialog,
                   undo_stack, show_completed, cursor_y, run, parses, mutated,
                   history,
                   fn_vars>>
    /\ undone' = <<>>

Next ==
    \/ Main
    \/ KeyC
    \/ KeyZ
    \/ KeyR
    \/ ResetYes
    \/ DialogClose
    \/ KeyDown
    \/ KeyUp
    \/ KeyPageDown
    \/ KeyPageUp
    \/ KeyHome
    \/ KeyEnd
    \/ KeySpace
    \/ KeyQ

Spec == Init /\ [][Next]_vars

\* ------------------------------------------- the operations on their own
\* The tree operations, the session round trip and the parser are pure
\* functions of their inputs.  Each specification below draws the inputs in
\* its Init (fin), applies the operation in one step (fout) and records in
\* fpc which operation ran.  The interactive program stays off.

ProgramOff ==
    /\ lists = NoFiles
    /\ sessions = NoFiles
    /\ pc = "off"
    /\ checklist = NoChecklist
    /\ duplicates = <<>>
    /\ dup_warning = FALSE
    /\ dialog = "none"
    /\ undo_stack = <<>>
    /\ show_completed = FALSE
    /\ cursor_y = 0
    /\ run = 0
    /\ parses = 0
    /\ mutated = FALSE
    /\ history = <<>>
    /\ undone = <<>>
    /\ last_op = "none"

\* The sequences of n nodes in all, built by the constructors Item(...) and
\* Checklist(...), names from Names and flags from F.  A Checklist may have
\* no children.
RECURSIVE Forests(_, _), TreesOfSize(_, _)
Forests(n, F) ==
    IF n = 0 THEN {<<>>}
    ELSE UNION {{<<t>> \o r : t \in TreesOfSize(k, F), r \in Forests(n - k, F)} :
                k \in 1..n}
TreesOfSize(k, F) ==
    {Checklist(<<x>>, f, c, 0) : x \in Names, f \in Forests(k - 1, F), c \in F}
    \cup (IF k = 1 THEN {Item(<<x>>, c, 0) : x \in Names, c \in F} ELSE {})

\* Every node of the tree a distinct object: ids in pre-order from `id`.
RECURSIVE WithIds(_, _), WithIdsFrom(_, _, _), NodeCount(_), NodesCount(_, _)
NodesCount(its, k) ==
    IF k > Len(its) THEN 0 ELSE NodeCount(its[k]) + NodesCount(its, k + 1)
NodeCount(node) == 1 + NodesCount(node.items, 1)
WithIdsFrom(its, k, id) ==
    IF k > Len(its) THEN <<>>
    ELSE <<WithIds(its[k], id)>> \o WithIdsFrom(its, k + 1, id + NodeCount(its[k]))
WithIds(node, id) ==
    [node EXCEPT !.id = id, !.items = WithIdsFrom(node.items, 1, id + 1)]

\* The top-level checklists of at most n nodes below the root, flags from F,
\* ids from `id`.
RootsUpTo(n, F, id) ==
    {WithIds(Checklist(<<"A">>, f, c, 0), id) :
        f \in UNION {Forests(m, F) : m \in 0..n}, c \in F}

\* copy.deepcopy of a tree: the same content, every node a new object.
DeepCopy(tree) == WithIds(tree, NodeCount(tree) + 1)

\* -- the tree: check, the session round trip, merge with a copy of itself

InitTree ==
    /\ ProgramOff
    /\ fpc = "init"
    /\ fin \in RootsUpTo(MaxNodes, BOOLEAN, 1)
    /\ fout = <<>>

\* The Checklist objects of a tree, the root included.
IdsOfChecklists(its) == {its[i].id : i \in {j \in DOMAIN its : HasItems(its[j])}}
ChecklistIds(tree) == {tree.id} \cup IdsOfChecklists(Checklist_items(tree))

\* item.check(checked=v) on one Checklist of the tree.
FnCheck ==
    /\ fpc = "init"
    /\ \E item \in ChecklistIds(fin), v \in BOOLEAN :
          fout' = [item |-> item, checked |-> v, tree |-> CheckAt(fin, item, v)]
    /\ fpc' = "check"
    /\ UNCHANGED <<ui_vars, fin>>

\* ChecklistSession.dumps(t)
FnDumps ==
    /\ fpc = "init"
    /\ fout' = ChecklistSession_dumps(fin)
    /\ fpc' = "dumps"
    /\ UNCHANGED <<ui_vars, fin>>

\* ChecklistSession.loads of the dumped document
FnLoads ==
    /\ fpc = "dumps"
    /\ fout' = ChecklistSession_loads(fout)
    /\ fpc' = "loads"
    /\ UNCHANGED <<ui_vars, fin>>

\* t.merge(copy.deepcopy(t))
FnMergeCopy ==
    /\ fpc = "init"
    /\ fout' = Checklist_merge(fin, DeepCopy(fin))
    /\ fpc' = "merge_copy"
    /\ UNCHANGED <<ui_vars, fin>>

NextTree ==
    \/ FnCheck
    \/ FnDumps
    \/ FnLoads
    \/ FnMergeCopy

SpecTree == InitTree /\ [][NextTree]_vars

\* -- merge: receiver and argument are two trees with no object in common.
\* merge neither reads nor writes `checked`; the receiver is all checked and
\* the argument all unchecked, which tells the nodes of the two apart.

InitMerge ==
    /\ ProgramOff
    /\ fpc = "init"
    /\ \E self \in RootsUpTo(MaxMergeNodes, {TRUE}, 1),
          other \in RootsUpTo(MaxMergeNodes, {FALSE}, MaxMergeNodes + 2) :
          fin = [self |-> self, other |-> other]
    /\ fout = <<>>

\* self.merge(other)
FnMerge ==
    /\ fpc = "init"
    /\ fout' = Checklist_merge(fin.self, fin.other)
    /\ fpc' = "merge"
    /\ UNCHANGED <<ui_vars, fin>>

NextMerge == FnMerge

SpecMerge == InitMerge /\ [][NextMerge]_vars

\* -- the parser: the main file A and a parent file B

CommentLine == <<"#", "a", "\n">>
BlankLine == <<"\n">>
FromLine(base) == <<"from:", " ">> \o base \o <<"\n">>

ParseLines == ItemLines \cup {CommentLine, BlankLine, FromLine(<<"B">>)}

InitParse ==
    /\ \E fa \in FilesOf(ParseLines, MaxLines),
          fb \in FilesOf(ItemLines, MaxParentLines) :
          lists = (<<"A">> :> fa) @@ (<<"B">> :> fb)
    /\ sessions = NoFiles
    /\ pc = "off"
    /\ checklist = NoChecklist
    /\ duplicates = <<>>
    /\ dup_warning = FALSE
    /\ dialog = "none"
    /\ undo_stack = <<>>
    /\ show_completed = FALSE
    /\ cursor_y = 0
    /\ run = 0
    /\ parses = 0
    /\ mutated = FALSE
    /\ history = <<>>
    /\ undone = <<>>
    /\ last_op = "none"
    /\ fpc = "init"
    /\ fin = <<>>
    /\ fout = <<>>

\* parser = ChecklistParser(); parser.load(path)
FnParse ==
    /\ fpc = "init"
    /\ fout' = ChecklistParser_load(lists, PathMain, NewShared)
    /\ fpc' = "load"
    /\ UNCHANGED <<ui_vars, fin>>

\* parser.dups()
FnDups ==
    /\ fpc = "load"
    /\ fout.sh.err = ""
    /\ fout' = [checklist |-> fout.checklist, dups |-> dups(fout.sh.items)]
    /\ fpc' = "dups"
    /\ UNCHANGED <<ui_vars, fin>>

NextParse ==
    \/ FnParse
    \/ FnDups

SpecParse == InitParse /\ [][NextParse]_vars

\* -- inheritance: A is a from: B line and then top-level item lines of its
\* own; B is any file of item lines.

TopLines == {ItemLine(0, x) : x \in Names}

PathB == PathToParent(<<"B">>)

InitInherit ==
    /\ \E own \in FilesOf(TopLines, MaxLines),
          fb \in FilesOf(ItemLines, MaxInheritLines) :
          lists = (<<"A">> :> (<<FromLine(<<"B">>)>> \o own)) @@ (<<"B">> :> fb)
    /\ sessions = NoFiles
    /\ pc = "off"
    /\ checklist = NoChecklist
    /\ duplicates = <<>>
    /\ dup_warning = FALSE
    /\ dialog = "none"
    /\ undo_stack = <<>>
    /\ show_completed = FALSE
    /\ cursor_y = 0
    /\ run = 0
    /\ parses = 0
    /\ mutated = FALSE
    /\ history = <<>>
    /\ undone = <<>>
    /\ last_op = "none"
    /\ fpc = "init"
    /\ fin = <<>>
    /\ fout = <<>>

\* ChecklistParser(B).load() on its own
FnParseParent ==
    /\ fpc = "init"
    /\ fin' = ChecklistParser_load(lists, PathB, NewShared)
    /\ fpc' = "parent"
    /\ UNCHANGED <<ui_vars, fout>>

\* ChecklistParser(A).load()
FnInherit ==
    /\ fpc = "parent"
    /\ fout' = ChecklistParser_load(lists, PathMain, NewShared)
    /\ fpc' = "inherit"
    /\ UNCHANGED <<ui_vars, fin>>

NextInherit ==
    \/ FnParseParent
    \/ FnInherit

SpecInherit == InitInherit /\ [][NextInherit]_vars

\* -- the line counter: one file of item lines and comment lines

NumberLines == ItemLines \cup {CommentLine}

InitNumber ==
    /\ \E fa \in FilesOf(NumberLines, MaxNumberLines) : lists = (<<"A">> :> fa)
    /\ sessions = NoFiles
    /\ pc = "off"
    /\ checklist = NoChecklist
    /\ duplicates = <<>>
    /\ dup_warning = FALSE
    /\ dialog = "none"
    /\ undo_stack = <<>>
    /\ show_completed = FALSE
    /\ cursor_y = 0
    /\ run = 0
    /\ parses = 0
    /\ mutated = FALSE
    /\ history = <<>>
    /\ undone = <<>>
    /\ last_op = "none"
    /\ fpc = "init"
    /\ fin = <<>>
    /\ fout = <<>>

NextNumber == FnParse

SpecNumber == InitNumber /\ [][NextNumber]_vars

\* ------------------------------------------------------------ properties

\* Some flags set and some not; some Checklist among the nodes.
Mixed(its) == \E i, j \in DOMAIN its : its[i].checked /\ ~its[j].checked
Nested(its) == \E i \in DOMAIN its : HasItems(its[i])
FlagsAll(its, v) == \A i \in DOMAIN its : its[i].checked = v

\* The node that the last undo returned, in a tree.
UndoneItem(tree) == ItemById(tree, undone[1].item)

\* C1: when the toggle of a Checklist with space is undone with z, the
\* Checklist and every one of its descendants, Checklists included, have the
\* checked flags they had just before the toggle.
C1_UndoRestoresChecklist ==
    (undone # <<>> /\ HasItems(UndoneItem(checklist)))
        => Content(UndoneItem(checklist)) = Content(UndoneItem(undone[1].before))

C1_Witness ==
    /\ undone # <<>>
    /\ HasItems(UndoneItem(checklist))
    /\ Mixed(Checklist_items(UndoneItem(undone[1].before)))
    /\ Nested(Checklist_items(UndoneItem(undone[1].before)))

\* C2: when the toggle of an Item with space is undone with z, the Item has
\* the flag it had before the toggle and so has every other node of the tree.
C2_UndoRestoresItem ==
    (undone # <<>> /\ ~HasItems(UndoneItem(checklist)))
        => Content(checklist) = Content(undone[1].before)

C2_Witness ==
    /\ undone # <<>>
    /\ ~HasItems(UndoneItem(checklist))
    /\ Nested(Checklist_items(checklist))
    /\ Mixed(Checklist_items(checklist))

\* The node `id` of a tree, the root included.
NodeAt(tree, id) == IF tree.id = id THEN tree ELSE ItemById(tree, id)
Flagged(node, v) == node.checked = v /\ FlagsAll(Checklist_items(node), v)

\* C3: right after C.check(v) on a Checklist C, C and every descendant of C,
\* at any depth, have checked = v.
C3_CheckPropagates ==
    fpc = "check" => Flagged(NodeAt(fout.tree, fout.item), fout.checked)

C3_Witness ==
    /\ fpc = "check"
    /\ fout.checked
    /\ fout.item # fin.id
    /\ Mixed(Checklist_items(NodeAt(fin, fout.item)))
    /\ Nested(Checklist_items(NodeAt(fin, fout.item)))

\* The cursor is on an Item of the unchecked-only list, and that Item is
\* the one unchecked Item of the tree (OneItemLeft) or the one unchecked node
\* of the tree (OneNodeLeft).
OnItem(d_items) == cursor_y < Len(d_items) /\ ~HasItems(d_items[cursor_y + 1])
OnlyItem(its, id) ==
    \A i \in DOMAIN its : ~HasItems(its[i]) => (its[i].checked <=> its[i].id # id)
OnlyNode(its, id) == \A i \in DOMAIN its : its[i].checked <=> its[i].id # id
OneItemLeft ==
    /\ Focused /\ ~show_completed
    /\ OnItem(displayed_items(checklist, FALSE))
    /\ OnlyItem(Checklist_items(checklist),
                displayed_items(checklist, FALSE)[cursor_y + 1].id)
OneNodeLeft ==
    /\ Focused /\ ~show_completed
    /\ OnItem(displayed_items(checklist, FALSE))
    /\ OnlyNode(Checklist_items(checklist),
                displayed_items(checklist, FALSE)[cursor_y + 1].id)

\* C4, as stated: with only unchecked items shown and exactly one Item
\* unchecked, space on that Item raises the completion dialog.
C4_LastItemCompletes ==
    [][(OneItemLeft /\ KeySpace) => dialog' = "completed"]_vars

\* C4, amended: with only unchecked items shown and an Item the only
\* unchecked node of the tree (every Checklist below the root is checked),
\* space on that Item raises the completion dialog.
C4_LastNodeCompletes ==
    [][(OneNodeLeft /\ KeySpace) => dialog' = "completed"]_vars

C4_Witness ==
    /\ pc = "on" /\ dialog = "completed" /\ ~show_completed
    /\ undo_stack # <<>>
    /\ ~HasItems(ItemById(checklist, undo_stack[Len(undo_stack)].item))
    /\ Nested(Checklist_items(checklist))

\* A child of the argument whose name is that of a child of the receiver of
\* the other kind.
KindCollision(self, o) ==
    /\ FirstNamed(self.items, o.name) # 0
    /\ HasItems(self.items[FirstNamed(self.items, o.name)]) # HasItems(o)
NotAmong(its, id) == \A i \in DOMAIN its : its[i].id # id
AllCollide(self, other, name) ==
    \A j \in DOMAIN other.items :
        other.items[j].name = name => KindCollision(self, other.items[j])
Dropped(self, other, node) ==
    \A j \in DOMAIN other.items :
        KindCollision(self, other.items[j])
            => /\ NotAmong(node.items, other.items[j].id)
               /\ AllCollide(self, other, other.items[j].name)
                    => node.items[FirstNamed(self.items, other.items[j].name)]
                         = self.items[FirstNamed(self.items, other.items[j].name)]

\* C5: merge raises no error, and a child of the argument that collides by
\* name with a child of the receiver of the other kind (Item against
\* Checklist, either way round) is dropped, the receiver's child unchanged.
C5_MergeNeverFails ==
    fpc = "merge" => (fout.err = "" /\ Dropped(fin.self, fin.other, fout.node))

\* A merge that has raised: an Item of the receiver met a Checklist of the
\* argument with its name.
ItemMeetsChecklist(self, other) ==
    \E j \in DOMAIN other.items :
        /\ HasItems(other.items[j])
        /\ KindCollision(self, other.items[j])
C5_Witness ==
    /\ fpc = "merge"
    /\ fout.err = "AttributeError"
    /\ ItemMeetsChecklist(fin.self, fin.other)

\* No two children of one node have the same name, at every level.
RECURSIVE UniqueSiblings(_)
UniqueSiblings(node) ==
    /\ \A i, j \in DOMAIN node.items :
          node.items[i].name = node.items[j].name => i = j
    /\ \A i \in DOMAIN node.items : UniqueSiblings(node.items[i])

\* C6, as stated: t.merge(c) for a copy c of t completes and leaves every
\* tree t unchanged, sibling names unique or not.
C6_MergeCopyIdempotent ==
    fpc = "merge_copy" => (fout.err = "" /\ Content(fout.node) = Content(fin))

\* C6, amended: t.merge(c) for a copy c of t completes and leaves t
\* unchanged when no two siblings of t have the same name, at every level.
C6_MergeCopyUniqueNames ==
    (fpc = "merge_copy" /\ UniqueSiblings(fin))
        => (fout.err = "" /\ Content(fout.node) = Content(fin))

C6_Witness ==
    /\ fpc = "merge_copy"
    /\ UniqueSiblings(fin)
    /\ Len(fin.items) > 1
    /\ Nested(fin.items)
    /\ Content(fout.node) = Content(fin)

\* The document of a node: the same name and flag, the key "items" exactly
\* for a Checklist, the children's documents in order.
RECURSIVE DocOf(_, _)
DocOf(d, node) ==
    /\ d.name = node.name
    /\ d.checked = node.checked
    /\ ("items" \in DOMAIN d) = HasItems(node)
    /\ HasItems(node)
          => /\ Len(d.items) = Len(node.items)
             /\ \A i \in DOMAIN node.items : DocOf(d.items[i], node.items[i])

\* C7: dumps writes the key "items" exactly for the Checklists, and
\* loads(dumps(t)) has the name, flag, kind and ordered children of t at
\* every node, a Checklist without children included.
C7_SessionRoundTrip ==
    /\ fpc = "dumps" => DocOf(fout, fin)
    /\ fpc = "loads" => Content(fout) = Content(fin)

EmptyChecklist(its) == \E i \in DOMAIN its : HasItems(its[i]) /\ its[i].items = <<>>
SomeItem(its) == \E i \in DOMAIN its : ~HasItems(its[i])
C7_Witness ==
    /\ fpc = "loads"
    /\ EmptyChecklist(Checklist_items(fin))
    /\ SomeItem(Checklist_items(fin))
    /\ Mixed(Checklist_items(fin))
    /\ EmptyChecklist(Checklist_items(fout))

SessionExists == PathToSession(PathMain) \in DOMAIN sessions

\* C8: the run that follows a run with a toggle, undo or reset starts with
\* the tree the earlier run ended with (names, structure, flags), without
\* running the parser and with no duplicate list.
C8_SecondRunReloads ==
    [][(pc = "off" /\ mutated /\ run' = run + 1)
          => /\ pc' = "on"
             /\ Content(checklist') = Content(checklist)
             /\ parses' = parses
             /\ ~Truthy(duplicates') /\ ~dup_warning']_vars

C8_Witness ==
    /\ pc = "on" /\ run = 2 /\ parses = 1 /\ ~mutated
    /\ SessionExists
    /\ Mixed(Checklist_items(checklist))
    /\ duplicates = <<>>

\* C9, as stated: in every run after the first the duplicate list is empty
\* and no duplicate warning is shown.
C9_DuplicatesOnlyFirstRun ==
    (pc = "on" /\ run > 1) => (~Truthy(duplicates) /\ ~dup_warning)

\* C9, amended: a run that finds the session file, which the first toggle,
\* undo or reset of any earlier run has written, has no duplicate list and
\* shows no warning, and the list does not change during a run; a run that
\* finds no session file parses again and may show the duplicates again.
C9_DuplicatesOnlyWithoutSession ==
    [][/\ (run' = run + 1 /\ SessionExists)
            => (~Truthy(duplicates') /\ ~dup_warning')
       /\ run' = run => (duplicates' = duplicates /\ (dup_warning' => dup_warning))]_vars

SameNamedItems(its) ==
    \E i, j \in DOMAIN its :
        i # j /\ ~HasItems(its[i]) /\ ~HasItems(its[j]) /\ its[i].name = its[j].name
C9_Witness ==
    /\ pc = "on" /\ run > 1 /\ SessionExists /\ ~mutated
    /\ SameNamedItems(Checklist_items(checklist))
    /\ duplicates = <<>> /\ ~dup_warning

\* The lines of a file that make items, and among them the lines that
\* become the parent of a nested scope: the next item line is deeper.
IsItemLine(line) == ~StartsWith(line, "#") /\ ~StartsWith(line, "from:")
IsParentLine(file, i) ==
    \E j \in (i + 1)..Len(file) :
        /\ IsItemLine(file[j])
        /\ LeadingSpaces(file[j]) > LeadingSpaces(file[i])
        /\ \A m \in (i + 1)..(j - 1) : ~IsItemLine(file[m])
ItemLinesNamed(file, name) ==
    Cardinality({i \in DOMAIN file : IsItemLine(file[i]) /\ Strip(file[i]) = name})
LeafLinesNamed(file, name) ==
    Cardinality({i \in DOMAIN file : /\ IsItemLine(file[i])
                                     /\ Strip(file[i]) = name
                                     /\ ~IsParentLine(file, i)})
FromLines(file) == Cardinality({i \in DOMAIN file : StartsWith(file[i], "from:")})
RecordsNamed(ds, name) == Len(SelectSeq(ds, LAMBDA r : r.name = name))
AtLeastTwo(k) == IF k > 1 THEN k ELSE 0

\* The occurrences of a name over the files read, B once for each from:.
Occurrences(name) ==
    ItemLinesNamed(lists[<<"A">>], name)
        + FromLines(lists[<<"A">>]) * ItemLinesNamed(lists[<<"B">>], name)
LeafOccurrences(name) ==
    LeafLinesNamed(lists[<<"A">>], name)
        + FromLines(lists[<<"A">>]) * LeafLinesNamed(lists[<<"B">>], name)

\* C10, as stated: after a parse, dups() has k records for a name that k >= 2
\* item lines have, parent lines of nested scopes counted, and none for a
\* name that one line has.
C10_DupsCountsEveryLine ==
    fpc = "dups" =>
        \A x \in Names : RecordsNamed(fout.dups, <<x>>) = AtLeastTwo(Occurrences(<<x>>))

\* C10, amended: after a parse, dups() has k records for a name that k >= 2
\* item lines that stay leaves have, and none for a name that one such line
\* has; a line that becomes the parent of a nested scope has no record.
C10_DupsCountsLeafLines ==
    fpc = "dups" =>
        \A x \in Names :
            RecordsNamed(fout.dups, <<x>>) = AtLeastTwo(LeafOccurrences(<<x>>))

C10_Witness ==
    /\ fpc = "dups"
    /\ FromLines(lists[<<"A">>]) > 0
    /\ \E i \in DOMAIN lists[<<"A">>] : IsParentLine(lists[<<"A">>], i)
    /\ \E x \in Names : /\ LeafLinesNamed(lists[<<"A">>], <<x>>) > 0
                        /\ LeafLinesNamed(lists[<<"B">>], <<x>>) > 0
                        /\ RecordsNamed(fout.dups, <<x>>) > 1

\* The names of A's own lines, in file order, and the contents of the nodes
\* of a list.
OwnNames(file) == [i \in 1..(Len(file) - 1) |-> Strip(file[i + 1])]
NamesOf(its) == {its[i].name : i \in DOMAIN its}
Contents(its) == [i \in DOMAIN its |-> Content(its[i])]
LeafContents(names) == [i \in DOMAIN names |-> Content(Item(names[i], FALSE, 0))]

\* The names of a list that are not in `have`, every occurrence (NotIn) or
\* the first occurrence of each (FirstNotIn).
NotIn(names, have) == SelectSeq(names, LAMBDA x : x \notin have)
RECURSIVE FirstNotIn(_, _, _)
FirstNotIn(names, k, have) ==
    IF k > Len(names) THEN <<>>
    ELSE IF names[k] \in have THEN FirstNotIn(names, k + 1, have)
    ELSE <<names[k]>> \o FirstNotIn(names, k + 1, have \cup {names[k]})

\* The parse of A fails exactly as the parse of B on its own does; when it
\* completes, the tree is named A and its children are the children of B,
\* as B's parse gives them, and then unchecked Items with the names `own`.
Inherits(a, b, own) ==
    /\ a.sh.err = b.sh.err
    /\ a.sh.err = ""
          => /\ a.checklist.name = <<"A">>
             /\ Contents(a.checklist.items)
                  = Contents(b.checklist.items) \o LeafContents(own)

\* C11, as stated: A being a from: B line and then top-level item lines, the
\* parse of A is a tree named A with the children of B in B's order, B's
\* node kept on a name collision, and then every own line of A whose name no
\* child of B has, in A's order.
C11_InheritEveryOwnLine ==
    fpc = "inherit" =>
        Inherits(fout, fin,
                 NotIn(OwnNames(lists[<<"A">>]), NamesOf(fin.checklist.items)))

\* C11, amended: the same, with A's own part being the first line of each
\* name that no child of B has; a later own line of a name already taken by
\* an earlier own line adds nothing.
C11_InheritFirstOwnLine ==
    fpc = "inherit" =>
        Inherits(fout, fin,
                 FirstNotIn(OwnNames(lists[<<"A">>]), 1,
                            NamesOf(fin.checklist.items)))

C11_Witness ==
    /\ fpc = "inherit"
    /\ fout.sh.err = ""
    /\ Len(fin.checklist.items) > 1
    /\ Nested(fin.checklist.items)
    /\ \E i \in DOMAIN OwnNames(lists[<<"A">>]) :
          OwnNames(lists[<<"A">>])[i] \in NamesOf(fin.checklist.items)
    /\ Len(fout.checklist.items) = Len(fin.checklist.items) + 1

\* A file with its blank and '#' lines taken out, and the lists directory
\* with every file so treated.
IsBlank(line) == Strip(line) = <<>>
IsComment(line) == StartsWith(line, "#")
Ignored(line) == IsBlank(line) \/ IsComment(line)
WithoutIgnored(file) == SelectSeq(file, LAMBDA line : ~Ignored(line))
ListsWithoutIgnored == [p \in DOMAIN lists |-> WithoutIgnored(lists[p])]
SameParse(r, q) ==
    /\ r.sh.err = q.sh.err
    /\ r.sh.err = "" => Content(r.checklist) = Content(q.checklist)

\* C12: the parse of a file is the parse of the same file with its blank
\* lines and its lines that begin with '#' removed: the same error if any,
\* else the same tree.
C12_BlankAndCommentIgnored ==
    fpc = "load" =>
        SameParse(fout, ChecklistParser_load(ListsWithoutIgnored, PathMain, NewShared))

\* A blank line of A has made a node with the empty name.
C12_Witness ==
    /\ fpc = "load"
    /\ fout.sh.err = ""
    /\ \E i \in DOMAIN lists[<<"A">>] : IsBlank(lists[<<"A">>][i])
    /\ \E i \in DOMAIN fout.checklist.items : fout.checklist.items[i].name = <<>>
    /\ \E i \in DOMAIN fout.checklist.items : fout.checklist.items[i].name # <<>>

\* The session file holds the serialisation of the tree in memory.
SessionIsTree ==
    /\ SessionExists
    /\ sessions[PathToSession(PathMain)] = ChecklistSession_dumps(checklist)
AllUnchecked(tree) == ~tree.checked /\ FlagsAll(Checklist_items(tree), FALSE)

\* C13: right after a confirmed reset the undo stack is empty, every node of
\* the tree is unchecked and the session file holds the serialisation of
\* that tree; a z pressed then changes neither the tree, the stack nor the
\* session file.
C13_ResetClearsAll ==
    /\ [](last_op = "reset"
            => /\ pc = "on" /\ dialog = "none"
               /\ undo_stack = <<>>
               /\ AllUnchecked(checklist)
               /\ SessionIsTree)
    /\ [][(last_op = "reset" /\ KeyZ)
            => /\ pc' = "on"
               /\ UNCHANGED <<checklist, undo_stack, sessions>>]_vars

C13_Witness ==
    /\ last_op = "reset"
    /\ run > 1
    /\ Nested(Checklist_items(checklist))
    /\ Len(Checklist_items(checklist)) > 2
    /\ SessionIsTree

\* C14: z on an empty undo stack raises nothing and leaves every checked
\* flag, the empty stack and the session file as they are.
C14_UndoOnEmptyStack ==
    [][(undo_stack = <<>> /\ KeyZ)
          => /\ pc' = "on"
             /\ last_op' = "noundo"
             /\ UNCHANGED <<checklist, undo_stack, sessions>>]_vars

C14_Witness ==
    /\ last_op = "noundo"
    /\ pc = "on"
    /\ undo_stack = <<>>
    /\ mutated
    /\ Mixed(Checklist_items(checklist))
    /\ SessionIsTree

\* C15: each z undoes the most recent toggle not yet undone, of an Item or
\* of a Checklist, whatever filter flips and cursor moves lie between: the
\* tree is then, at every node, the tree just before that toggle; the undo
\* stack is empty exactly when every toggle has been undone, the tree then
\* being the tree before the first toggle.
C15_UndoIsLIFO ==
    /\ undone # <<>> => Content(checklist) = Content(undone[1].before)
    /\ pc = "on" => (undo_stack = <<>> <=> history = <<>>)
    /\ pc = "on" => Len(undo_stack) >= Len(history)

\* An undo of a Checklist's toggle, an earlier toggle that changed the tree
\* still to be undone, all items shown.
C15_Witness ==
    /\ undone # <<>>
    /\ HasItems(UndoneItem(checklist))
    /\ Len(history) = 1
    /\ undo_stack # <<>>
    /\ show_completed
    /\ Content(checklist) # Content(history[1])
    /\ Mixed(Checklist_items(checklist))

\* The handlers that change no flag: the filter flip, the cursor keys, the
\* opening and the closing of a dialog, z on an empty stack, space on an
\* empty list.
NonMutating ==
    \/ KeyC
    \/ KeyDown \/ KeyUp \/ KeyPageDown \/ KeyPageUp \/ KeyHome \/ KeyEnd
    \/ KeyR
    \/ (dialog = "reset" /\ DialogClose)
    \/ (undo_stack = <<>> /\ KeyZ)
    \/ (displayed_items(checklist, show_completed) = <<>> /\ KeySpace)

\* C16: after every toggle with space, every z that pops and every confirmed
\* reset, and from then on through the filter flips and cursor moves of the
\* run, the session file holds the serialisation of the tree in memory; a
\* handler that changes no flag does not write the session file.
C16_SessionFollowsTree ==
    /\ []((last_op \in {"toggle", "undo", "reset"} \/ (pc = "on" /\ mutated))
            => SessionIsTree)
    /\ [][NonMutating => sessions' = sessions]_vars

C16_Witness ==
    /\ last_op = "undo"
    /\ show_completed
    /\ history # <<>>
    /\ Nested(Checklist_items(checklist))
    /\ Mixed(Checklist_items(checklist))
    /\ SessionIsTree

\* The children of the argument whose name no child of the receiver has, in
\* the argument's order.
Unmatched(self, other) ==
    SelectSeq(other.items, LAMBDA o : FirstNamed(self.items, o.name) = 0)
IdsOf(its) == [i \in DOMAIN its |-> its[i].id]
SameNode(n, m) ==
    n.id = m.id /\ n.kind = m.kind /\ n.name = m.name /\ n.checked = m.checked

\* The receiver's children first, each the same object with its kind and
\* flag, then the unmatched children of the argument, the same objects.
ReceiverFirst(self, other, node) ==
    /\ node.id = self.id
    /\ Len(node.items) = Len(self.items) + Len(Unmatched(self, other))
    /\ \A i \in DOMAIN self.items : SameNode(node.items[i], self.items[i])
    /\ SubSeq(IdsOf(node.items), Len(self.items) + 1, Len(node.items))
         = IdsOf(Unmatched(self, other))

\* C17: self.merge(other) returns self with its earlier children first, in
\* their order, each with its kind and checked flag, followed by exactly the
\* children of other whose name no child of self had, in other's order, by
\* reference.
C17_ReceiverPrecedence ==
    fpc = "merge" => (fout.err = "" /\ ReceiverFirst(fin.self, fin.other, fout.node))

\* A merge that raised with children of the argument still to append.
C17_Witness ==
    /\ fpc = "merge"
    /\ fout.err = "AttributeError"
    /\ Len(fin.self.items) > 1
    /\ Unmatched(fin.self, fin.other) # <<>>
    /\ ~ReceiverFirst(fin.self, fin.other, fout.node)

\* The tree the lines of a file describe: the parent of a line is the
\* nearest line before it with fewer leading spaces, the root if there is
\* none.  A shape is the name of a node and the shapes of its children.
ParentLine(file, i) ==
    LET less == {j \in 1..(i - 1) : LeadingSpaces(file[j]) < LeadingSpaces(file[i])}
    IN  IF less = {} THEN 0 ELSE SetMax(less)
RECURSIVE Ascending(_)
Ascending(S) ==
    IF S = {} THEN <<>> ELSE <<SetMin(S)>> \o Ascending(S \ {SetMin(S)})
ChildLines(file, p) == Ascending({i \in DOMAIN file : ParentLine(file, i) = p})
RECURSIVE ShapesOfLines(_, _)
ShapesOfLines(file, ls) ==
    [k \in DOMAIN ls |->
        [name |-> Strip(file[ls[k]]),
         items |-> ShapesOfLines(file, ChildLines(file, ls[k]))]]
ShapeOfFile(file) ==
    [name |-> <<"A">>, items |-> ShapesOfLines(file, ChildLines(file, 0))]
RECURSIVE Shape(_)
Shape(node) ==
    [name |-> node.name, items |-> [i \in DOMAIN node.items |-> Shape(node.items[i])]]

\* A file of item lines alone, the first with no leading space.
ItemLinesOnly(file) ==
    /\ file # <<>>
    /\ \A i \in DOMAIN file : file[i] \in ItemLines
    /\ LeadingSpaces(file[1]) = 0

\* C18: for a file of item lines whose first line has no leading space and
\* any indentation of the lines after it, the parse completes and every
\* line has one node, the flattened names being the trimmed lines in file
\* order and each node the child of the node of the nearest earlier line
\* with fewer leading spaces, or of the root.
C18_EveryLineKept ==
    (fpc = "load" /\ ItemLinesOnly(lists[<<"A">>]))
        => /\ fout.sh.err = ""
           /\ Len(Checklist_items(fout.checklist)) = Len(lists[<<"A">>])
           /\ Shape(fout.checklist) = ShapeOfFile(lists[<<"A">>])

\* A parse that has lost a line: fewer nodes than lines.
C18_Witness ==
    /\ fpc = "load"
    /\ ItemLinesOnly(lists[<<"A">>])
    /\ fout.sh.err = ""
    /\ Len(Checklist_items(fout.checklist)) < Len(lists[<<"A">>])

\* All the records of the duplicate map, and those of one file.
RECURSIVE AllRecords(_, _)
AllRecords(d, k) == IF k > Len(d) THEN <<>> ELSE d[k].recs \o AllRecords(d, k + 1)
RecordsOf(d, base) == SelectSeq(AllRecords(d, 1), LAMBDA r : r.path.base = base)
LineNumbers(recs) == {recs[i].linenum : i \in DOMAIN recs}

\* The lines of a file that keep a record: the item lines that do not become
\* the parent of a nested scope.
LeafLines(file) ==
    {i \in DOMAIN file : IsItemLine(file[i]) /\ ~IsParentLine(file, i)}

\* The record is that of the line it numbers: an item line of its file that
\* has the record's name.
RecordOfLine(r) ==
    /\ r.path.base \in DOMAIN lists
    /\ r.linenum \in DOMAIN lists[r.path.base]
    /\ IsItemLine(lists[r.path.base][r.linenum])
    /\ Strip(lists[r.path.base][r.linenum]) = r.name

\* The records of one parse of a file number its leaf lines, one each, and
\* under one name in file order.
NumbersLeafLines(d, base) ==
    /\ LineNumbers(RecordsOf(d, base)) = LeafLines(lists[base])
    /\ \A k \in DOMAIN d :
          \A i, j \in DOMAIN d[k].recs :
              (i < j /\ d[k].recs[i].path.base = base /\ d[k].recs[j].path.base = base)
                  => d[k].recs[i].linenum <= d[k].recs[j].linenum

\* C19: every record of the duplicate map has the 1-based number of the
\* line of its own file that made the item, at every depth, after a nested
\* scope and after comment lines; after a parse that completes the records
\* of a file number exactly its lines that stay leaves.
C19_RecordsNumberTheirLines ==
    fpc = "load" =>
        /\ \A i \in DOMAIN AllRecords(fout.sh.items, 1) :
              RecordOfLine(AllRecords(fout.sh.items, 1)[i])
        /\ fout.sh.err = ""
              => /\ NumbersLeafLines(fout.sh.items, <<"A">>)
                 /\ FromLines(lists[<<"A">>]) > 0
                       => NumbersLeafLines(fout.sh.items, <<"B">>)

\* A record of a line that comes back from a nested scope of two lines or
\* more: the two lines before it are deeper, and the scope was opened by
\* pushing a line back.
AfterNestedScope(file, i) ==
    /\ i > 3
    /\ LeadingSpaces(file[i - 1]) > LeadingSpaces(file[i])
    /\ LeadingSpaces(file[i - 2]) > LeadingSpaces(file[i])
    /\ IsItemLine(file[i - 1]) /\ IsItemLine(file[i - 2])
    /\ IsParentLine(file, i - 3)
C19_Witness ==
    /\ fpc = "load"
    /\ fout.sh.err = ""
    /\ \E i \in LineNumbers(RecordsOf(fout.sh.items, <<"A">>)) :
          AfterNestedScope(lists[<<"A">>], i)
    /\ \E i \in LineNumbers(RecordsOf(fout.sh.items, <<"A">>)) :
          LeadingSpaces(lists[<<"A">>][i]) > 0

\* The cursor is on a line of the list shown, or on line 0 of an empty list.
CursorOn(d_items) ==
    IF d_items = <<>> THEN cursor_y = 0
    ELSE cursor_y >= 0 /\ cursor_y < Len(d_items)

\* C20: while the program runs, after any keys and dialogs, cursor_position.y
\* is an index into displayed_items(), or 0 when that list is empty, so that
\* d_items[cursor_position.y] in the space handler is never out of range.
C20_CursorInBounds ==
    pc = "on" => CursorOn(displayed_items(checklist, show_completed))

\* The cursor has come back to the last line that is left after a toggle
\* took a line off the list of unchecked items.
C20_Witness ==
    /\ pc = "on"
    /\ last_op = "toggle"
    /\ ~show_completed
    /\ cursor_y > 0
    /\ cursor_y = Len(displayed_items(checklist, FALSE)) - 1
    /\ Len(displayed_items(checklist, FALSE)) < Len(displayed_items(history[Len(history)], FALSE))

====
